---- MODULE Spec2Model ----
(***************************************************************************)
(* Model of wgpu_launchpad's `launch` (src/src/lib.rs): start-up, the      *)
(* swapchain lifecycle and the winit event-loop callback.                  *)
(*                                                                         *)
(* The platform (winit + the OS) is the environment: the OS changes the    *)
(* window's physical size and queues events at any time; the loop hands   *)
(* the callback, per iteration, NewEvents, the events that were queued     *)
(* when the iteration began, MainEventsCleared and RedrawEventsCleared,    *)
(* and leaves after the iteration in which control_flow became Exit.       *)
(*                                                                         *)
(* `log` is the history of the calls the driver makes to its collaborators *)
(* (Scene, device, swap chain, queue), in program order.                   *)
(*                                                                         *)
(* `main` is the driver of src/src/main.rs, run next to `launch` on the     *)
(* same window, the same events and the same outcomes of the fallible      *)
(* calls, to compare the two.                                              *)
(***************************************************************************)
EXTENDS Integers, Sequences, FiniteSets, TLC

VARIABLES
    pc,            \* position of `launch`: "window", "device", "swap_chain",
                   \* "scene", "run", "exit" (loop left), "panic" (unwrap/expect)
    phase,         \* position of the loop inside one iteration
    inner_size,    \* window.inner_size(): the window's current physical size
    pending,       \* events the OS has queued and the loop has not yet taken
    batch,         \* events of the current iteration not yet dispatched
    swap_chain,    \* descriptor of the live swapchain (lib.rs:57)
    resized,       \* the dirty flag (lib.rs:71)
    control_flow,  \* *control_flow of the callback
    log,           \* calls made so far
    produced,      \* number of events the OS has produced
    iter,          \* number of loop iterations begun
    main           \* main.rs: its swap_chain, resized, control_flow, its
                   \* calls so far, and whether it has panicked

vars == <<pc, phase, inner_size, pending, batch, swap_chain, resized,
          control_flow, log, produced, iter, main>>

driver == <<swap_chain, resized, control_flow, log>>

\* ------------------------------------------------------------------ bounds
MaxEvents == 2
MaxIter == 2

\* Physical sizes the window takes.
Sizes == { [width |-> 800, height |-> 600], [width |-> 1024, height |-> 768] }

\* ------------------------------------------------------------- descriptors
SWAPCHAIN_FORMAT == "Bgra8UnormSrgb"

NoSwapChain ==
    [usage |-> "none", format |-> "none", width |-> 0, height |-> 0,
     present_mode |-> "none"]

\* a start-up swapchain with another present mode than the rebuilt ones
StartupDescriptorFifo(size) ==
    [usage |-> "OUTPUT_ATTACHMENT", format |-> "Bgra8UnormSrgb",
     width |-> size.width, height |-> size.height, present_mode |-> "Fifo"]

\* lib.rs:62-68, the descriptor of the swapchain built at start-up
StartupDescriptor(size) ==
    [usage |-> "OUTPUT_ATTACHMENT", format |-> SWAPCHAIN_FORMAT,
     width |-> size.width, height |-> size.height, present_mode |-> "Mailbox"]

\* a rebuild that mixes up the two dimensions
RebuildDescriptorSwapped(size) ==
    [usage |-> "OUTPUT_ATTACHMENT", format |-> SWAPCHAIN_FORMAT,
     width |-> size.height, height |-> size.width, present_mode |-> "Mailbox"]

\* lib.rs:98-104, the descriptor of a rebuilt swapchain
RebuildDescriptor(size) ==
    [usage |-> "OUTPUT_ATTACHMENT", format |-> SWAPCHAIN_FORMAT,
     width |-> size.width, height |-> size.height, present_mode |-> "Mailbox"]

\* ------------------------------------------------------------------ events
Resized(size) == [type |-> "Resized", window |-> TRUE, size |-> size]
CloseRequested == [type |-> "CloseRequested", window |-> TRUE]
OtherWindowEvent == [type |-> "Focused", window |-> TRUE]
DeviceEvent == [type |-> "DeviceEvent", window |-> FALSE]
NewEventsEvent == [type |-> "NewEvents", window |-> FALSE]
MainEventsClearedEvent == [type |-> "MainEventsCleared", window |-> FALSE]
RedrawEventsClearedEvent == [type |-> "RedrawEventsCleared", window |-> FALSE]
LoopDestroyedEvent == [type |-> "LoopDestroyed", window |-> FALSE]

\* ------------------------------------------------------------ main.rs
\* The fixed driver of src/src/main.rs, on a record d of its own state.
MAIN_SWAPCHAIN_FORMAT == "Bgra8UnormSrgb"

MainInit ==
    [swap_chain |-> NoSwapChain, resized |-> FALSE, control_flow |-> "Poll",
     log |-> <<>>, panicked |-> FALSE]

MainCall(d, entry) == [d EXCEPT !.log = Append(@, entry)]

\* main.rs:14, Window::new(..).unwrap()
MainNewWindow(d, ok) == [d EXCEPT !.panicked = ~ok]

\* main.rs:20-40
MainRequestDevice(d, ok) ==
    [MainCall(d, [op |-> "request_device", ok |-> ok]) EXCEPT !.panicked = ~ok]

\* main.rs:47-53
MainStartupDescriptor(size) ==
    [usage |-> "OUTPUT_ATTACHMENT", format |-> MAIN_SWAPCHAIN_FORMAT,
     width |-> size.width, height |-> size.height, present_mode |-> "Mailbox"]

\* main.rs:81-87
MainRebuildDescriptor(size) ==
    [usage |-> "OUTPUT_ATTACHMENT", format |-> MAIN_SWAPCHAIN_FORMAT,
     width |-> size.width, height |-> size.height, present_mode |-> "Mailbox"]

\* main.rs:42-56
MainCreateSwapChain(d, size) ==
    [MainCall(d, [op |-> "create_swap_chain", site |-> "startup",
                  desc |-> MainStartupDescriptor(size), inner |-> size])
       EXCEPT !.swap_chain = MainStartupDescriptor(size), !.resized = FALSE]

\* main.rs:59
MainSceneNew(d) == MainCall(d, [op |-> "Scene::new"])

\* a fixed driver whose Resized arm does not mark the swapchain dirty
MainMatchWindowEventNoResize(d, event) ==
    CASE event.type = "CloseRequested" -> [d EXCEPT !.control_flow = "Exit"]
      [] OTHER -> d

\* main.rs:64-74, the Event::WindowEvent arm: the match only
MainMatchWindowEvent(d, event) ==
    CASE event.type = "Resized" -> [d EXCEPT !.resized = TRUE]
      [] event.type = "CloseRequested" -> [d EXCEPT !.control_flow = "Exit"]
      [] OTHER -> d

\* main.rs:76-91
MainRebuild(d, size) ==
    IF d.resized
    THEN [MainCall(d, [op |-> "create_swap_chain", site |-> "rebuild",
                       desc |-> MainRebuildDescriptor(size)])
            EXCEPT !.swap_chain = MainRebuildDescriptor(size),
                   !.resized = FALSE]
    ELSE d

\* main.rs:93
MainGetCurrentFrame(d, ok) ==
    [MainCall(d, [op |-> "get_current_frame", ok |-> ok,
                  width |-> d.swap_chain.width,
                  height |-> d.swap_chain.height])
       EXCEPT !.panicked = ~ok]

\* main.rs:95-96
MainCreateCommandEncoder(d) == MainCall(d, [op |-> "create_command_encoder"])

\* main.rs:100, scene.clear opens the render pass on the frame's view
MainSceneClear(d) ==
    MainCall(d, [op |-> "Scene::clear", width |-> d.swap_chain.width,
                 height |-> d.swap_chain.height])

\* main.rs:103, scene.draw records into that render pass
MainSceneDraw(d) ==
    MainCall(d, [op |-> "Scene::draw", width |-> d.swap_chain.width,
                 height |-> d.swap_chain.height])

\* main.rs:107
MainSubmit(d) == MainCall(d, [op |-> "queue.submit"])

\* main.rs:93-107, what follows a frame acquisition
MainRenderFrame(d) ==
    IF d.panicked
    THEN d
    ELSE MainSubmit(MainSceneDraw(MainSceneClear(MainCreateCommandEncoder(d))))

\* main.rs:75-108, the Event::MainEventsCleared arm
MainDrainArm(d, ok, size) ==
    MainRenderFrame(MainGetCurrentFrame(MainRebuild(d, size), ok))

\* main.rs:62-111, one invocation of the closure
MainCallback(d, event, ok, size) ==
    IF event.window THEN MainMatchWindowEvent(d, event)
    ELSE IF event.type = "MainEventsCleared"
         THEN MainDrainArm(d, ok, size)
         ELSE d

\* ------------------------------------------------------------------ start-up
Init ==
    /\ pc = "window"
    /\ phase = "idle"
    /\ inner_size \in Sizes
    /\ pending = <<>>
    /\ batch = <<>>
    /\ swap_chain = NoSwapChain
    /\ resized = FALSE
    /\ control_flow = "Poll"
    /\ log = <<>>
    /\ produced = 0
    /\ iter = 0
    /\ main = MainInit

\* lib.rs:29, Window::new(..).unwrap()
NewWindow(ok) ==
    /\ pc = "window"
    /\ pc' = IF ok THEN "device" ELSE "panic"
    /\ main' = MainNewWindow(main, ok)
    /\ UNCHANGED <<phase, inner_size, pending, batch, driver, produced, iter>>

\* a start-up that goes on without an adapter or a device
RequestDeviceUnchecked(ok) ==
    /\ pc = "device"
    /\ main' = MainRequestDevice(main, ok)
    /\ log' = Append(log, [op |-> "request_device", ok |-> ok])
    /\ pc' = "swap_chain"
    /\ UNCHANGED <<phase, inner_size, pending, batch, swap_chain, resized,
                   control_flow, produced, iter>>

\* lib.rs:35-55, request_adapter / request_device with expect
RequestDevice(ok) ==
    /\ pc = "device"
    /\ main' = MainRequestDevice(main, ok)
    /\ log' = Append(log, [op |-> "request_device", ok |-> ok])
    /\ pc' = IF ok THEN "swap_chain" ELSE "panic"
    /\ UNCHANGED <<phase, inner_size, pending, batch, swap_chain, resized,
                   control_flow, produced, iter>>

\* lib.rs:57-71
CreateSwapChain ==
    /\ pc = "swap_chain"
    /\ main' = MainCreateSwapChain(main, inner_size)
    /\ swap_chain' = StartupDescriptor(inner_size)
    /\ resized' = FALSE
    /\ log' = Append(log, [op |-> "create_swap_chain", site |-> "startup",
                           desc |-> StartupDescriptor(inner_size),
                           inner |-> inner_size])
    /\ pc' = "scene"
    /\ UNCHANGED <<phase, inner_size, pending, batch, control_flow, produced, iter>>

\* a start-up that enters the loop without constructing the Scene
SceneNewSkipped ==
    /\ pc = "scene"
    /\ main' = MainSceneNew(main)
    /\ pc' = "run"
    /\ UNCHANGED <<phase, inner_size, pending, batch, driver, produced, iter>>

\* lib.rs:74
SceneNew ==
    /\ pc = "scene"
    /\ main' = MainSceneNew(main)
    /\ log' = Append(log, [op |-> "Scene::new"])
    /\ pc' = "run"
    /\ UNCHANGED <<phase, inner_size, pending, batch, swap_chain, resized,
                   control_flow, produced, iter>>

\* ---------------------------------------------------------------- callback
\* The closure of lib.rs:77-124 works on the captured driver state d:
\* the swapchain, the dirty flag, *control_flow and the calls made so far.
Cur ==
    [swap_chain |-> swap_chain, resized |-> resized,
     control_flow |-> control_flow, log |-> log, panicked |-> FALSE]

Call(d, entry) == [d EXCEPT !.log = Append(@, entry)]

\* lib.rs:80, scene.event(&event); the entry records the driver state the
\* call is made in
SceneEvent(d, event) ==
    Call(d, [op |-> "Scene::event", event |-> event,
             resized |-> d.resized, control_flow |-> d.control_flow])

\* a driver that rebuilds on every Resized event, with the size it carries
MatchWindowEventEager(d, event) ==
    CASE event.type = "Resized" ->
           [Call(d, [op |-> "create_swap_chain", site |-> "rebuild",
                     desc |-> RebuildDescriptor(event.size)])
              EXCEPT !.swap_chain = RebuildDescriptor(event.size)]
      [] event.type = "CloseRequested" -> [d EXCEPT !.control_flow = "Exit"]
      [] OTHER -> d

\* a driver that does not signal exit on a close-request
MatchWindowEventNoExit(d, event) ==
    CASE event.type = "Resized" -> [d EXCEPT !.resized = TRUE]
      [] OTHER -> d

\* a driver that signals exit on whatever is not a Resized event
MatchWindowEventExitOnAny(d, event) ==
    CASE event.type = "Resized" -> [d EXCEPT !.resized = TRUE]
      [] OTHER -> [d EXCEPT !.control_flow = "Exit"]

\* a driver whose close-request arm also marks the swapchain dirty
MatchWindowEventCloseDirty(d, event) ==
    CASE event.type = "Resized" -> [d EXCEPT !.resized = TRUE]
      [] event.type = "CloseRequested" ->
           [d EXCEPT !.resized = TRUE, !.control_flow = "Exit"]
      [] OTHER -> d

\* lib.rs:81-89, the driver's own match on the window event
MatchWindowEvent(d, event) ==
    CASE event.type = "Resized" -> [d EXCEPT !.resized = TRUE]
      [] event.type = "CloseRequested" -> [d EXCEPT !.control_flow = "Exit"]
      [] OTHER -> d

\* a driver that inspects the event before it forwards it to the Scene
WindowEventArmDriverFirst(d, event) ==
    SceneEvent(MatchWindowEvent(d, event), event)

\* lib.rs:79-90, the Event::WindowEvent arm
WindowEventArm(d, event) == MatchWindowEvent(SceneEvent(d, event), event)

\* a drain phase that rebuilds the swapchain whether or not it is dirty
RebuildAlways(d, size) ==
    [Call(d, [op |-> "create_swap_chain", site |-> "rebuild",
              desc |-> RebuildDescriptor(size)])
       EXCEPT !.swap_chain = RebuildDescriptor(size), !.resized = FALSE]

\* a rebuild that leaves the dirty flag set
RebuildKeepsDirty(d, size) ==
    IF d.resized
    THEN [Call(d, [op |-> "create_swap_chain", site |-> "rebuild",
                   desc |-> RebuildDescriptor(size)])
            EXCEPT !.swap_chain = RebuildDescriptor(size)]
    ELSE d

\* a drain phase that rebuilds when the sizes differ, not when dirty
RebuildOnMismatch(d, size) ==
    IF d.swap_chain.width # size.width \/ d.swap_chain.height # size.height
    THEN [Call(d, [op |-> "create_swap_chain", site |-> "rebuild",
                   desc |-> RebuildDescriptor(size)])
            EXCEPT !.swap_chain = RebuildDescriptor(size), !.resized = FALSE]
    ELSE [d EXCEPT !.resized = FALSE]

\* a rebuild whose new swapchain does not replace the captured one
RebuildKeepsOld(d, size) ==
    IF d.resized
    THEN [Call(d, [op |-> "create_swap_chain", site |-> "rebuild",
                   desc |-> RebuildDescriptor(size)])
            EXCEPT !.resized = FALSE]
    ELSE d

\* lib.rs:93-108, rebuild the swapchain if necessary
Rebuild(d, size) ==
    IF d.resized
    THEN [Call(d, [op |-> "create_swap_chain", site |-> "rebuild",
                   desc |-> RebuildDescriptor(size)])
            EXCEPT !.swap_chain = RebuildDescriptor(size), !.resized = FALSE]
    ELSE d

\* a driver that asks again when no frame is available
GetCurrentFrameRetry(d, ok) ==
    IF ok
    THEN Call(d, [op |-> "get_current_frame", ok |-> TRUE,
                  width |-> d.swap_chain.width, height |-> d.swap_chain.height])
    ELSE Call(Call(d, [op |-> "get_current_frame", ok |-> FALSE,
                       width |-> d.swap_chain.width,
                       height |-> d.swap_chain.height]),
              [op |-> "get_current_frame", ok |-> TRUE,
               width |-> d.swap_chain.width, height |-> d.swap_chain.height])

\* lib.rs:111, swap_chain.get_current_frame().expect("Next frame")
GetCurrentFrame(d, ok) ==
    [Call(d, [op |-> "get_current_frame", ok |-> ok,
              width |-> d.swap_chain.width, height |-> d.swap_chain.height])
       EXCEPT !.panicked = ~ok]

\* lib.rs:113-114
CreateCommandEncoder(d) == Call(d, [op |-> "create_command_encoder"])

\* lib.rs:117, the target is the view of the acquired frame
SceneDraw(d) ==
    Call(d, [op |-> "Scene::draw", width |-> d.swap_chain.width,
             height |-> d.swap_chain.height])

\* lib.rs:120
Submit(d) == Call(d, [op |-> "queue.submit"])

\* a driver that drops the frame once exit has been signalled
RenderFrameSkipOnExit(d) ==
    IF d.panicked \/ d.control_flow = "Exit"
    THEN d
    ELSE Submit(SceneDraw(CreateCommandEncoder(d)))

\* a driver that goes on to draw whatever the acquisition returned
RenderFrameUnchecked(d) == Submit(SceneDraw(CreateCommandEncoder(d)))

\* lib.rs:110-120, what follows a frame acquisition
RenderFrame(d) ==
    IF d.panicked THEN d ELSE Submit(SceneDraw(CreateCommandEncoder(d)))

\* a drain phase that acquires its frame before it rebuilds the swapchain
MainEventsClearedArmAcquireFirst(d, ok, size) ==
    RenderFrame(Rebuild(GetCurrentFrame(d, ok), size))

\* lib.rs:91-121, the Event::MainEventsCleared arm; ok is the outcome of the
\* frame acquisition, size what window.inner_size() returns
MainEventsClearedArm(d, ok, size) ==
    RenderFrame(GetCurrentFrame(Rebuild(d, size), ok))

\* a closure that renders on every event that is not a window event
CallbackDrainsAlways(d, event, ok, size) ==
    IF event.window THEN WindowEventArm(d, event)
    ELSE MainEventsClearedArm(d, ok, size)

\* lib.rs:77-124, one invocation of the closure
Callback(d, event, ok, size) ==
    IF event.window THEN WindowEventArm(d, event)
    ELSE IF event.type = "MainEventsCleared"
         THEN MainEventsClearedArm(d, ok, size)
         ELSE d

\* event_loop.run (lib.rs:77): the loop invokes the closure and the driver
\* state becomes its result.  The loop's own entry of the history records
\* the event handed over, the window's size and the driver state at that
\* moment.
Invoke(event, ok, next_pc) ==
    LET d0 == Call(Cur, [op |-> "callback", event |-> event,
                         inner |-> inner_size, resized |-> resized,
                         control_flow |-> control_flow])
        d == Callback(d0, event, ok, inner_size)
    IN  /\ swap_chain' = d.swap_chain
        /\ resized' = d.resized
        /\ control_flow' = d.control_flow
        /\ log' = d.log
        /\ pc' = IF d.panicked THEN "panic" ELSE next_pc
        /\ main' = MainCallback(
                      Call(main, [op |-> "callback", event |-> event,
                                  inner |-> inner_size,
                                  resized |-> main.resized,
                                  control_flow |-> main.control_flow]),
                      event, ok, inner_size)

\* -------------------------------------------------------------- event loop
\* an iteration begins: the loop takes the events queued so far
NewEvents ==
    /\ pc = "run" /\ phase = "idle" /\ iter < MaxIter
    /\ Invoke(NewEventsEvent, TRUE, "run")
    /\ batch' = pending
    /\ pending' = <<>>
    /\ phase' = "dispatch"
    /\ iter' = iter + 1
    /\ UNCHANGED <<inner_size, produced>>

\* the next event of the iteration is handed to the closure
Dispatch ==
    /\ pc = "run" /\ phase = "dispatch" /\ batch # <<>>
    /\ Invoke(Head(batch), TRUE, "run")
    /\ batch' = Tail(batch)
    /\ UNCHANGED <<phase, inner_size, pending, produced, iter>>

\* all events of the iteration are delivered: the drain phase
MainEventsCleared(ok) ==
    /\ pc = "run" /\ phase = "dispatch" /\ batch = <<>>
    /\ Invoke(MainEventsClearedEvent, ok, "run")
    /\ phase' = "redraw"
    /\ UNCHANGED <<inner_size, pending, batch, produced, iter>>

\* the iteration ends; Exit is honoured here
RedrawEventsCleared ==
    /\ pc = "run" /\ phase = "redraw"
    /\ Invoke(RedrawEventsClearedEvent, TRUE, "run")
    /\ phase' = IF control_flow = "Exit" THEN "destroy" ELSE "idle"
    /\ UNCHANGED <<inner_size, pending, batch, produced, iter>>

\* the loop is left
LoopDestroyed ==
    /\ pc = "run" /\ phase = "destroy"
    /\ Invoke(LoopDestroyedEvent, TRUE, "exit")
    /\ UNCHANGED <<phase, inner_size, pending, batch, produced, iter>>

\* ---------------------------------------------------------------- platform
Alive == pc \in {"device", "swap_chain", "scene", "run"}

Produce(event) ==
    /\ Alive /\ produced < MaxEvents
    /\ pending' = Append(pending, event)
    /\ produced' = produced + 1
    /\ UNCHANGED <<pc, phase, batch, driver, iter, main>>

\* the OS gives the window a size and queues the Resized event
OSResize(size) ==
    /\ Produce(Resized(size))
    /\ inner_size' = size

OSClose == Produce(CloseRequested) /\ UNCHANGED inner_size

OSInput == Produce(OtherWindowEvent) /\ UNCHANGED inner_size

OSDevice == Produce(DeviceEvent) /\ UNCHANGED inner_size

\* ------------------------------------------------------------------ history
Max(S) == CHOOSE x \in S : \A y \in S : y <= x
Min(S) == CHOOSE x \in S : \A y \in S : x <= y

Entries(op) == {i \in DOMAIN log : log[i].op = op}

\* the loop handed the closure an event of this type at entry i
IsDelivery(i, type) == log[i].op = "callback" /\ log[i].event.type = type
IsDrain(i) == IsDelivery(i, "MainEventsCleared")
Deliveries(type) == {i \in DOMAIN log : IsDelivery(i, type)}

\* the invocation of the closure that entry i belongs to (0: start-up)
CallbackOf(i) == Max({0} \cup {j \in 1..i : log[j].op = "callback"})
\* the end of the invocation that begins at entry i
EndOf(i) == Min({Len(log)} \cup {j - 1 : j \in {k \in (i+1)..Len(log) : log[k].op = "callback"}})
\* the last drain phase before entry i (0: none)
PrevDrain(i) == Max({0} \cup {j \in 1..(i-1) : IsDrain(j)})
\* Resized events delivered since the drain phase before drain i
ResizesBefore(i) == {k \in (PrevDrain(i)+1)..(i-1) : IsDelivery(k, "Resized")}

\* --------------------------------------------------------------------- C1
\* C1: whenever one or more Resized events were delivered between two
\* consecutive drain phases, exactly one swapchain is created between the
\* first of them and the frame acquisition of the second drain phase; it is
\* created in that drain phase, with the size the window has at that moment.
Coalescing ==
    \A i \in DOMAIN log :
        (IsDrain(i) /\ ResizesBefore(i) # {}) =>
            LET first == Min(ResizesBefore(i))
                frames == {j \in i..EndOf(i) : log[j].op = "get_current_frame"}
                until == IF frames = {} THEN EndOf(i) ELSE Min(frames)
                builds == {b \in first..until : log[b].op = "create_swap_chain"}
            IN  /\ frames # {}
                /\ Cardinality(builds) = 1
                /\ \A b \in builds :
                      /\ b > i
                      /\ log[b].desc.width = log[i].inner.width
                      /\ log[b].desc.height = log[i].inner.height

\* two Resized events delivered in one iteration, the first carrying a size
\* the window no longer has when the drain phase runs, and one rebuild
CoalescingWitness ==
    \E i \in DOMAIN log :
        /\ IsDrain(i)
        /\ Cardinality(ResizesBefore(i)) >= 2
        /\ \E k \in ResizesBefore(i) : log[k].event.size # log[i].inner
        /\ Cardinality({b \in i..EndOf(i) : log[b].op = "create_swap_chain"}) = 1

\* --------------------------------------------------------------------- C2
\* C2: every frame is acquired from a swapchain whose width and height are
\* the window's physical size at that moment.
NeverStale ==
    \A j \in Entries("get_current_frame") :
        /\ log[j].width = log[CallbackOf(j)].inner.width
        /\ log[j].height = log[CallbackOf(j)].inner.height

\* --------------------------------------------------------------------- C3
\* C3: draw is called once in each drain phase whose frame acquisition
\* succeeds, after the acquisition, and in no other place; so the number of
\* draw calls is the number of frames acquired.
DrawOncePerFrame ==
    /\ \A j \in Entries("get_current_frame") :
          Cardinality({k \in j..EndOf(j) : log[k].op = "Scene::draw"})
              = IF log[j].ok THEN 1 ELSE 0
    /\ \A k \in Entries("Scene::draw") :
          \E j \in CallbackOf(k)..k : log[j].op = "get_current_frame" /\ log[j].ok
    /\ Cardinality(Entries("Scene::draw"))
          = Cardinality({j \in Entries("get_current_frame") : log[j].ok})

\* a frame was drawn and a later acquisition failed
DrawOncePerFrameWitness ==
    /\ pc = "panic"
    /\ Entries("Scene::draw") # {}
    /\ \E j \in Entries("get_current_frame") : ~log[j].ok

\* --------------------------------------------------------------------- C4
\* C4: Scene::new is called at most once, it has been called once the event
\* loop runs, and every draw, every event handed to the Scene, every
\* invocation of the closure and every rebuild of the swapchain comes after
\* it.
IsRebuild(i) == log[i].op = "create_swap_chain" /\ log[i].site = "rebuild"

SceneNewOnceAndFirst ==
    /\ Cardinality(Entries("Scene::new")) <= 1
    /\ pc \in {"run", "exit"} => Cardinality(Entries("Scene::new")) = 1
    /\ \A i \in DOMAIN log :
          (log[i].op \in {"Scene::draw", "Scene::event", "callback"} \/ IsRebuild(i))
              => \E n \in 1..(i-1) : log[n].op = "Scene::new"

\* a run in which the Scene got an event, the swapchain was rebuilt and a
\* frame was drawn
SceneNewOnceAndFirstWitness ==
    /\ Entries("Scene::event") # {}
    /\ Entries("Scene::draw") # {}
    /\ \E i \in DOMAIN log : IsRebuild(i)

\* --------------------------------------------------------------------- C5
\* C5: after the first close-request is handled no further iteration
\* begins; the loop is left only after the drain phase of that iteration has
\* acquired, drawn and submitted its frame; leaving the loop is the last
\* thing in the history, so the Scene gets no event and no draw after it;
\* and (under fair scheduling of the loop) a handled close-request leads to
\* the loop being left, or to the abort of a failed frame acquisition.
FirstClose == Min(Deliveries("CloseRequested"))
Closed == Deliveries("CloseRequested") # {}

CloseSafety ==
    /\ Closed => \A i \in Deliveries("NewEvents") : i < FirstClose
    /\ pc = "exit" =>
          /\ Closed
          /\ IsDelivery(Len(log), "LoopDestroyed")
          /\ Cardinality(Deliveries("LoopDestroyed")) = 1
          /\ \E i \in DOMAIN log :
                /\ IsDrain(i) /\ i > FirstClose
                /\ \E j \in i..EndOf(i) : log[j].op = "get_current_frame" /\ log[j].ok
                /\ \E j \in i..EndOf(i) : log[j].op = "Scene::draw"
                /\ log[EndOf(i)].op = "queue.submit"

CloseTerminates ==
    /\ []CloseSafety
    /\ [][pc = "exit" => log' = log]_vars
    /\ (Closed ~> pc \in {"exit", "panic"})

\* the loop was left after a close-request that was followed, in its
\* iteration, by another event for the Scene
CloseTerminatesWitness ==
    /\ pc = "exit"
    /\ \E k \in Entries("Scene::event") : k > FirstClose

\* --------------------------------------------------------------------- C6
\* C6: every window event the loop hands to the closure is passed to the
\* Scene exactly once, as the first thing the closure does, while the dirty
\* flag and the exit signal are still what they were when the closure was
\* invoked; the Scene gets no other event.
SceneSeesEveryEventFirst ==
    /\ \A i \in Entries("callback") :
          log[i].event.window =>
              /\ i < Len(log)
              /\ log[i+1].op = "Scene::event"
              /\ log[i+1].event = log[i].event
              /\ log[i+1].resized = log[i].resized
              /\ log[i+1].control_flow = log[i].control_flow
              /\ Cardinality({k \in i..EndOf(i) : log[k].op = "Scene::event"}) = 1
    /\ \A k \in Entries("Scene::event") :
          /\ log[k-1].op = "callback"
          /\ log[k-1].event = log[k].event

\* a Resized event reached the Scene while the flag was clear and set the
\* flag, and a close-request reached it before exit was signalled
SceneSeesEveryEventFirstWitness ==
    /\ resized
    /\ control_flow = "Exit"
    /\ \E k \in Entries("Scene::event") :
          log[k].event.type = "Resized" /\ ~log[k].resized
    /\ \E k \in Entries("Scene::event") :
          log[k].event.type = "CloseRequested" /\ log[k].control_flow = "Poll"

\* --------------------------------------------------------------------- C7
\* C7: a rebuilt swapchain has the width and height the window has when the
\* rebuild runs; any two swapchains built for the same window size, at
\* start-up or in a rebuild, have descriptors equal in every field; and the
\* live swapchain is the one built last.
Builds == Entries("create_swap_chain")
\* the window's size when swapchain b was built
BuildWindow(b) ==
    IF log[b].site = "startup" THEN log[b].inner ELSE log[CallbackOf(b)].inner

RebuildMatchesWindow ==
    /\ \A b \in Builds :
          IsRebuild(b) =>
              /\ log[b].desc.width = BuildWindow(b).width
              /\ log[b].desc.height = BuildWindow(b).height
    /\ \A b1, b2 \in Builds :
          BuildWindow(b1) = BuildWindow(b2) => log[b1].desc = log[b2].desc
    /\ Builds # {} => swap_chain = log[Max(Builds)].desc

\* two rebuilds ran with the window at the same size, and one with another
RebuildMatchesWindowWitness ==
    /\ \E b1, b2 \in Builds :
          /\ b1 < b2 /\ IsRebuild(b1) /\ IsRebuild(b2)
          /\ BuildWindow(b1) = BuildWindow(b2)
    /\ \E b1, b2 \in Builds : BuildWindow(b1) # BuildWindow(b2)

\* --------------------------------------------------------------------- C8
\* C8: when the swapchain was built at start-up for an 800x600 window and
\* no Resized event has been delivered, it is still the only swapchain ever
\* built, 800x600, and after N drain phases the Scene has had N draw calls
\* (N - 1 if the N-th frame acquisition failed and aborted the process).
Small == [width |-> 800, height |-> 600]
Big == [width |-> 1024, height |-> 768]

NoResizeScenario ==
    (/\ Builds # {}
     /\ log[Min(Builds)].inner = Small
     /\ Deliveries("Resized") = {})
    =>  /\ Cardinality(Builds) = 1
        /\ \A b \in Builds :
              /\ log[b].site = "startup"
              /\ log[b].desc.width = 800
              /\ log[b].desc.height = 600
        /\ swap_chain.width = 800 /\ swap_chain.height = 600
        /\ Cardinality(Entries("Scene::draw"))
              = Cardinality(Deliveries("MainEventsCleared"))
                  - (IF pc = "panic" THEN 1 ELSE 0)

\* two iterations have drawn with no Resized event delivered
NoResizeScenarioWitness ==
    /\ Builds # {}
    /\ log[Min(Builds)].inner = Small
    /\ Deliveries("Resized") = {}
    /\ pc = "run"
    /\ Cardinality(Entries("Scene::draw")) >= 2

\* --------------------------------------------------------------------- C9
\* C9: when the OS has resized the window exactly once, to 1024x768, and
\* that Resized event has been delivered, the swapchain is rebuilt at most
\* once, in the first drain phase after the delivery, to 1024x768, and every
\* frame acquired after the delivery comes from a 1024x768 swapchain.
QueuedResizes(q) == {k \in DOMAIN q : q[k].type = "Resized"}

ResizedOnceToBig ==
    /\ Cardinality(Deliveries("Resized")) = 1
    /\ QueuedResizes(batch) = {} /\ QueuedResizes(pending) = {}
    /\ \A r \in Deliveries("Resized") : log[r].event.size = Big

NoResizeBeforeClose ==
    /\ Closed
    /\ \A r \in Deliveries("Resized") : r > FirstClose

\* C10 as claimed: with no Resized event before the close-request, no frame
\* is acquired in a drain phase that begins after the close-request has been
\* handled.
NoFrameAfterClose ==
    NoResizeBeforeClose =>
        \A j \in Entries("get_current_frame") : CallbackOf(j) < FirstClose

\* C10 as amended: with no Resized event before the close-request, no
\* iteration begins after the close-request has been handled, and the one
\* drain phase that follows it, that of its own iteration, acquires one
\* frame; when the loop has been left exactly one frame was acquired after
\* the close-request.
OneFrameAfterClose ==
    NoResizeBeforeClose =>
        LET after == {j \in Entries("get_current_frame") : j > FirstClose}
        IN  /\ Cardinality(after) <= 1
            /\ \A i \in Deliveries("NewEvents") : i < FirstClose
            /\ Cardinality(Deliveries("MainEventsCleared")
                             \cap FirstClose..Len(log)) = Cardinality(after)
            /\ pc = "exit" => Cardinality(after) = 1

\* the loop was left on a close-request, with earlier iterations drawn
OneFrameAfterCloseWitness ==
    /\ NoResizeBeforeClose
    /\ pc = "exit"
    /\ \E j \in Entries("get_current_frame") : j < FirstClose
    /\ \E j \in Entries("get_current_frame") : j > FirstClose

\* -------------------------------------------------------------------- C11
\* C11: a failed frame acquisition is the last thing the process does: it is
\* not retried, no encoder, draw or submission follows it, the process has
\* aborted, and nothing (event, rebuild, frame) is ever added to the history.
FailedFrames == {j \in Entries("get_current_frame") : ~log[j].ok}

AcquireFailureSafety ==
    /\ \A j \in FailedFrames : j = Len(log) /\ pc = "panic"
    /\ \A i \in Deliveries("MainEventsCleared") :
          Cardinality({j \in i..EndOf(i) : log[j].op = "get_current_frame"}) = 1

AcquireFailureFatal ==
    /\ []AcquireFailureSafety
    /\ [][pc = "panic" => (pc' = "panic" /\ UNCHANGED driver)]_vars

\* the process aborted in a drain phase that had rebuilt the swapchain,
\* after an earlier frame was drawn, with an event still queued
AcquireFailureFatalWitness ==
    /\ FailedFrames # {}
    /\ pc = "panic"
    /\ pending # <<>>
    /\ Entries("queue.submit") # {}
    /\ \E b \in Builds : IsRebuild(b) /\ CallbackOf(b) = CallbackOf(Len(log))

\* -------------------------------------------------------------------- C12
\* C12: when no adapter or device is obtained the process has aborted and
\* that failure is the last entry of the history: no swapchain exists, the
\* Scene is not constructed, the closure is never invoked; every swapchain,
\* Scene call and closure invocation comes after a successful acquisition.
FailedDevice == {i \in Entries("request_device") : ~log[i].ok}

DeviceFailureSafety ==
    /\ Cardinality(Entries("request_device")) <= 1
    /\ \A i \in FailedDevice :
          /\ i = Len(log)
          /\ pc = "panic"
          /\ swap_chain = NoSwapChain
          /\ phase = "idle" /\ iter = 0
    /\ \A i \in DOMAIN log :
          log[i].op # "request_device" =>
              \E r \in 1..(i-1) : log[r].op = "request_device" /\ log[r].ok

DeviceFailureFatal ==
    /\ []DeviceFailureSafety
    /\ [][pc = "panic" => (pc' = "panic" /\ UNCHANGED <<driver, phase, iter>>)]_vars

\* the process aborted at start-up with events already queued
DeviceFailureFatalWitness ==
    /\ FailedDevice # {}
    /\ pc = "panic"
    /\ Len(pending) >= 2

\* -------------------------------------------------------------------- C13
\* C13: the live swapchain, once created, and every swapchain ever created
\* have format Bgra8UnormSrgb, usage OUTPUT_ATTACHMENT and present mode
\* Mailbox; two successive configurations differ at most in width and height.
FixedFields(desc) ==
    /\ desc.format = "Bgra8UnormSrgb"
    /\ desc.usage = "OUTPUT_ATTACHMENT"
    /\ desc.present_mode = "Mailbox"

FixedConfiguration ==
    /\ swap_chain = NoSwapChain \/ FixedFields(swap_chain)
    /\ Builds = {} <=> swap_chain = NoSwapChain
    /\ \A b \in Builds : FixedFields(log[b].desc)
    /\ \A b1, b2 \in Builds :
          /\ log[b1].desc.format = log[b2].desc.format
          /\ log[b1].desc.usage = log[b2].desc.usage
          /\ log[b1].desc.present_mode = log[b2].desc.present_mode

\* the swapchain was rebuilt to another size than it had at start-up
FixedConfigurationWitness ==
    /\ \E b \in Builds :
          /\ IsRebuild(b)
          /\ log[b].desc.width # log[Min(Builds)].desc.width
    /\ swap_chain = log[Max(Builds)].desc

\* -------------------------------------------------------------------- C14
\* the step in which the loop hands the closure an event of one of the types
Handles(types) ==
    /\ Len(log') > Len(log)
    /\ log'[Len(log) + 1].op = "callback"
    /\ log'[Len(log) + 1].event.type \in types

\* C14: the step that handles a Resized event sets the dirty flag, passes the
\* event to the Scene and does nothing else: swapchain and exit signal keep
\* their values, no frame is acquired and nothing is drawn.  A swapchain is
\* rebuilt only as the first call of a drain phase entered with the flag
\* set, and a drain phase entered with the flag clear does not rebuild.
RebuildOnlyInDirtyDrain ==
    /\ \A b \in Builds :
          IsRebuild(b) =>
              /\ IsDrain(CallbackOf(b))
              /\ log[CallbackOf(b)].resized
              /\ b = CallbackOf(b) + 1
    /\ \A i \in Deliveries("MainEventsCleared") :
          ~log[i].resized =>
              \A b \in i..EndOf(i) : log[b].op # "create_swap_chain"

ResizeOnlyMarksDirty ==
    /\ []RebuildOnlyInDirtyDrain
    /\ [][Handles({"Resized"}) =>
            /\ resized'
            /\ swap_chain' = swap_chain
            /\ control_flow' = control_flow
            /\ pc' = pc
            /\ Len(log') = Len(log) + 2
            /\ log'[Len(log) + 2].op = "Scene::event"]_vars

\* a Resized event has been handled, the window has another size than the
\* swapchain, and the swapchain is still the one built at start-up
ResizeOnlyMarksDirtyWitness ==
    /\ resized
    /\ Deliveries("Resized") # {}
    /\ swap_chain.width # inner_size.width
    /\ Cardinality(Builds) = 1
    /\ log[Len(log)].op = "Scene::event"
    /\ log[Len(log)].event.type = "Resized"

\* -------------------------------------------------------------------- C15
\* the calls of the drain phase that begins at entry i, in order
DrainOps(i) == [k \in 1..(EndOf(i) - i) |-> log[i + k].op]

\* C15: the calls of every drain phase are, in this order: create_swap_chain
\* if the flag was set, get_current_frame, and when a frame was acquired
\* create_command_encoder, Scene::draw, queue.submit.  So every draw is
\* directly followed by its submission, and between two frame acquisitions
\* the commands of the first have been submitted.
DrainOrder ==
    /\ \A i \in Deliveries("MainEventsCleared") :
          DrainOps(i) =
              (IF log[i].resized THEN <<"create_swap_chain">> ELSE <<>>)
              \o <<"get_current_frame">>
              \o (IF \E j \in i..EndOf(i) :
                        log[j].op = "get_current_frame" /\ log[j].ok
                  THEN <<"create_command_encoder", "Scene::draw", "queue.submit">>
                  ELSE <<>>)
    /\ \A k \in Entries("Scene::draw") :
          k < Len(log) /\ log[k + 1].op = "queue.submit"
    /\ Cardinality(Entries("queue.submit")) = Cardinality(Entries("Scene::draw"))
    /\ \A j1, j2 \in Entries("get_current_frame") :
          j1 < j2 => \E q \in (j1 + 1)..(j2 - 1) : log[q].op = "queue.submit"
    /\ \A k \in DOMAIN log :
          log[k].op \in {"get_current_frame", "create_command_encoder",
                         "Scene::draw", "queue.submit"}
              => IsDrain(CallbackOf(k))

\* a drain phase that rebuilt, acquired, drew and submitted, and a later
\* frame acquisition
DrainOrderWitness ==
    \E i \in Deliveries("MainEventsCleared") :
        /\ log[i].resized
        /\ Len(DrainOps(i)) = 5
        /\ \E j \in Entries("get_current_frame") : j > EndOf(i)

\* -------------------------------------------------------------------- C16
\* C16: exit is signalled, and the loop left, only after a close-request has
\* been handed to the closure; once left the loop stays left; and (under
\* fair scheduling of the loop) a delivered close-request leads to the loop
\* being left, or to the abort of a failed frame acquisition.
ExitOnlyOnClose ==
    /\ (control_flow = "Exit" \/ phase = "destroy" \/ pc = "exit") => Closed
    /\ \A i \in Entries("callback") :
          log[i].control_flow = "Exit" => (Closed /\ FirstClose < i)
    /\ pc \in {"window", "device", "swap_chain", "scene", "run", "exit", "panic"}

TerminationOnClose ==
    /\ []ExitOnlyOnClose
    /\ [][pc = "exit" => pc' = "exit"]_vars
    /\ (Closed ~> pc \in {"exit", "panic"})

\* the loop went through an iteration with another window event, and was
\* left on a later close-request
TerminationOnCloseWitness ==
    /\ pc = "exit"
    /\ \E k \in Deliveries("Resized") \cup Deliveries("Focused") :
          \E n \in Deliveries("NewEvents") : k < n /\ n < FirstClose

\* -------------------------------------------------------------------- C17
\* C17: before start-up builds it there is no swapchain; from then on the
\* number of swapchains created is one plus the number of drain phases
\* entered with the dirty flag set, the live swapchain is the one created
\* last, a rebuild comes before the frame acquisition of its drain phase,
\* and every frame is acquired from the swapchain created last before it.
DirtyDrains == {i \in Deliveries("MainEventsCleared") : log[i].resized}

OneLiveSwapchain ==
    /\ Builds = {} => swap_chain = NoSwapChain
    /\ Builds # {} =>
          /\ Cardinality(Builds) = 1 + Cardinality(DirtyDrains)
          /\ Cardinality({b \in Builds : log[b].site = "startup"}) = 1
          /\ swap_chain = log[Max(Builds)].desc
    /\ \A j \in Entries("get_current_frame") :
          /\ \E b \in Builds : b < j
          /\ LET live == Max({b \in Builds : b < j})
             IN  /\ log[j].width = log[live].desc.width
                 /\ log[j].height = log[live].desc.height
                 /\ IsRebuild(live) /\ CallbackOf(live) = CallbackOf(j)
                       => live < j

\* a frame was acquired from a swapchain rebuilt to another size
OneLiveSwapchainWitness ==
    \E j \in Entries("get_current_frame") :
        /\ log[j].ok
        /\ log[j - 1].op = "create_swap_chain"
        /\ log[j].width # log[Min(Builds)].desc.width
        /\ Cardinality(Builds) = 2

\* -------------------------------------------------------------------- C18
\* C18: the dirty flag is set exactly when a Resized event has been handled
\* since the last drain phase (or since start-up), now and at every
\* invocation of the closure; so it is clear at start-up and after every
\* drain phase, and no other event sets or clears it.
LastDrain == Max({0} \cup Deliveries("MainEventsCleared"))

DirtyFlagInvariant ==
    /\ resized <=> \E k \in Deliveries("Resized") : k > LastDrain
    /\ \A i \in Entries("callback") :
          log[i].resized <=>
              \E k \in Deliveries("Resized") : PrevDrain(i) < k /\ k < i
    /\ Entries("callback") = {} => ~resized

\* after a drain phase a Resized event and then a close-request were
\* handled: the flag is set and exit is signalled
DirtyFlagInvariantWitness ==
    /\ resized
    /\ control_flow = "Exit"
    /\ LastDrain > 0
    /\ \E k \in Deliveries("Resized") :
          k > LastDrain /\ \E c \in Deliveries("CloseRequested") : c > k

\* -------------------------------------------------------------------- C19
OtherTypes ==
    {"Focused", "DeviceEvent", "NewEvents", "RedrawEventsCleared",
     "LoopDestroyed"}

\* C19: a step that hands the closure an event that is neither Resized, nor
\* CloseRequested, nor MainEventsCleared leaves the dirty flag, the exit
\* signal and the swapchain as they are and does not abort; it makes no call
\* except, for a window event, passing the event to the Scene.
OtherEventsNoEffect ==
    [][Handles(OtherTypes) =>
          /\ resized' = resized
          /\ control_flow' = control_flow
          /\ swap_chain' = swap_chain
          /\ pc' # "panic"
          /\ Len(log') = Len(log) +
                (IF log'[Len(log) + 1].event.window THEN 2 ELSE 1)
          /\ \A k \in (Len(log) + 2)..Len(log') : log'[k].op = "Scene::event"]_vars

\* another window event and a non-window event were handled while the
\* swapchain was dirty
OtherEventsNoEffectWitness ==
    /\ resized
    /\ \E i \in Deliveries("Focused") : log[i].resized
    /\ \E i \in Deliveries("RedrawEventsCleared") \cup Deliveries("DeviceEvent") :
          i < Len(log)

\* -------------------------------------------------------------------- C20
Without(calls, op) == SelectSeq(calls, LAMBDA e : e.op # op)
MainEntries(op) == {i \in DOMAIN main.log : main.log[i].op = op}

\* C20: run on the same events, window sizes and outcomes, main and launch
\* have the same swapchain, dirty flag and exit signal and have both
\* panicked or not; their histories (which record the flag and the signal
\* at every invocation of the closure, every swapchain built, every frame
\* acquired and every submission) are equal once launch's Scene::event
\* calls and main's Scene::clear calls are left out; main makes no
\* Scene::event call and one Scene::clear call right before each draw.
DriversEquivalent ==
    /\ main.swap_chain = swap_chain
    /\ main.resized = resized
    /\ main.control_flow = control_flow
    /\ main.panicked <=> pc = "panic"
    /\ Without(main.log, "Scene::clear") = Without(log, "Scene::event")
    /\ MainEntries("Scene::event") = {}
    /\ Entries("Scene::clear") = {}
    /\ Cardinality(MainEntries("Scene::clear"))
          = Cardinality(MainEntries("Scene::draw"))
    /\ \A k \in MainEntries("Scene::draw") : main.log[k - 1].op = "Scene::clear"

\* both drivers handled a Resized event, rebuilt, drew and left the loop
DriversEquivalentWitness ==
    /\ pc = "exit"
    /\ \E b \in Builds : IsRebuild(b)
    /\ Entries("Scene::event") # {}
    /\ MainEntries("Scene::clear") # {}
    /\ Len(main.log) # Len(log)

\* ----------------------------------------------------------- specification
Next ==
    \/ \E ok \in BOOLEAN : NewWindow(ok)
    \/ \E ok \in BOOLEAN : RequestDevice(ok)
    \/ CreateSwapChain
    \/ SceneNew
    \/ NewEvents
    \/ Dispatch
    \/ \E ok \in BOOLEAN : MainEventsCleared(ok)
    \/ RedrawEventsCleared
    \/ LoopDestroyed
    \/ \E size \in Sizes : OSResize(size)
    \/ OSClose
    \/ OSInput
    \/ OSDevice

Spec == Init /\ [][Next]_vars

\* the loop keeps running: event_loop.run never returns to its caller and
\* polls (ControlFlow::Poll is winit's default) until Exit
LoopStep ==
    \/ NewEvents
    \/ Dispatch
    \/ \E ok \in BOOLEAN : MainEventsCleared(ok)
    \/ RedrawEventsCleared
    \/ LoopDestroyed

FairSpec == Spec /\ WF_vars(LoopStep)

====
